---- MODULE Spec2Model ----
(***************************************************************************)
(* Model of sggmm (Supergiant Games Mod Manager), src/sggmm/cli.py:        *)
(* the backup store (backup_files, restore_files, uninstall_mods), the     *)
(* command line entry point cli, the modfile cleaning regular expression   *)
(* REGEX_SUBSTITUTION and the modfile interpreter load_mods.               *)
(***************************************************************************)
EXTENDS Integers, Sequences, FiniteSets, TLC

VARIABLES
    game,       \* entries under the game root: path -> "none" | "dir" | content
    bexists,    \* the folder <game>/Backup exists
    backup,     \* entries under <game>/Backup, mirroring the game root
    mods,       \* the folder <game>/Mods exists
    log,        \* records emitted through LOGGER
    pc,         \* position of the running call
    ret,        \* where restore_files returns to
    todo,       \* entries backup_path.glob("**/*") has not yielded yet
    raised,     \* exception that left the running call ("none" if none)
    clean,      \* cli option --clean
    parentName, \* game_path.parent.name
    gameOpt,    \* cli option --game ("None" when not given)
    stdout,     \* what typer.echo printed
    changelist, \* value returned by read_modfiles
    prevF,      \* file_list of the latest backup_files call
    before,     \* entries under Backup when the latest backup_files call began
    repeat,     \* the latest backup_files call repeated the file_list of the one
                \* before it, the game root having changed in between
    bkRaised,   \* exception that left the latest backup_files call
    changed,    \* the game root was changed since the latest backup_files call
    entry,      \* filesystem seen when uninstall_mods was entered
    text,       \* modfile text read by read_modfiles
    cleaned,    \* re.sub(REGEX_SUBSTITUTION, "", text)
    cpc,        \* position of the cleaning run
    lines,      \* modfile_commands.splitlines(), each line split()
    lineNo,     \* index of the line load_mods handles next
    out,        \* LOGGER calls made by load_mods, in order
    lraised,    \* exception that left load_mods
    lresult     \* value load_mods returned

fsVars   == <<game, bexists, backup, mods, log, pc, ret, todo, raised, entry>>
cliVars  == <<clean, parentName, gameOpt, stdout, changelist>>
bkVars   == <<prevF, before, repeat, bkRaised, changed>>
txtVars  == <<text, cleaned, cpc>>
loadVars == <<lines, lineNo, out, lraised, lresult>>
vars     == <<fsVars, cliVars, bkVars, txtVars, loadVars>>

(***************************************************************************)
(* The filesystem below the game root.                                     *)
(***************************************************************************)
Root     == "."
Paths    == {"Scripts", "Scripts/a.lua", "f.txt"}
Contents == {"v1", "v2"}
Kinds    == {"none", "dir"} \cup Contents

Parent(p) == IF p = "Scripts/a.lua" THEN "Scripts" ELSE Root

RECURSIVE IsAncestor(_, _)
IsAncestor(a, p) == IF p = Root THEN FALSE
                    ELSE Parent(p) = a \/ IsAncestor(a, Parent(p))

NoFS == [p \in Paths |-> "none"]

\* a directory tree: an entry exists only inside an existing directory
ValidFS(fs) == \A p \in Paths :
    (fs[p] # "none" /\ Parent(p) # Root) => fs[Parent(p)] = "dir"

Trees == {fs \in [Paths -> Kinds] : ValidFS(fs)}

Entries(fs) == {p \in Paths : fs[p] # "none"}

\* shutil.rmtree / os.remove of one entry and everything below it
Remove(fs, p) == [q \in Paths |-> IF q = p \/ IsAncestor(p, q) THEN "none" ELSE fs[q]]

\* Path.is_dir(): false when the path is missing or below a regular file
IsDir(fs, p) == IF p = Root THEN TRUE ELSE fs[p] = "dir"

\* Path.mkdir(parents=True, exist_ok=True) succeeds unless a component is a regular file
RECURSIVE MkdirOk(_, _)
MkdirOk(fs, d) == IF d = Root THEN TRUE
                  ELSE /\ fs[d] \in {"none", "dir"}
                       /\ MkdirOk(fs, Parent(d))

RECURSIVE MkdirP(_, _)
MkdirP(fs, d) == IF d = Root THEN fs
                 ELSE [MkdirP(fs, Parent(d)) EXCEPT ![d] = "dir"]

Logged(level, msg, path) == [level |-> level, msg |-> msg, path |-> path]

NoEntry == [bexists |-> FALSE, mods |-> FALSE, game |-> NoFS, backup |-> NoFS, called |-> FALSE]

(***************************************************************************)
(* backup_files(file_list, backup_path)                                    *)
(***************************************************************************)
\* one iteration of the loop over file_list, on st = [b, bexists, raised]
BackupOne(g, st, f) ==
    LET parentMissing == IF Parent(f) = Root THEN ~st.bexists
                         ELSE st.b[Parent(f)] = "none"
        \* destination_path.parent.mkdir(parents=True)
        b1  == IF parentMissing THEN MkdirP(st.b, Parent(f)) ELSE st.b
        ex1 == st.bexists \/ parentMissing
    IN  IF g[f] = "dir"
        THEN \* destination_path.mkdir()
             IF b1[f] # "none"
             THEN [b |-> b1, bexists |-> ex1, raised |-> "FileExistsError"]
             ELSE IF ~IsDir(b1, Parent(f))
             THEN [b |-> b1, bexists |-> ex1, raised |-> "NotADirectoryError"]
             ELSE [b |-> [b1 EXCEPT ![f] = "dir"], bexists |-> ex1, raised |-> "none"]
        ELSE \* shutil.copyfile(original_file, destination_path)
             IF g[f] = "none"
             THEN [b |-> b1, bexists |-> ex1, raised |-> "FileNotFoundError"]
             ELSE IF b1[f] = "dir"
             THEN [b |-> b1, bexists |-> ex1, raised |-> "IsADirectoryError"]
             ELSE IF ~IsDir(b1, Parent(f))
             THEN [b |-> b1, bexists |-> ex1, raised |-> "NotADirectoryError"]
             ELSE [b |-> [b1 EXCEPT ![f] = g[f]], bexists |-> ex1, raised |-> "none"]

RECURSIVE BackupLoop(_, _, _)
BackupLoop(g, st, fl) ==
    IF fl = <<>> \/ st.raised # "none" THEN st
    ELSE BackupLoop(g, BackupOne(g, st, Head(fl)), Tail(fl))

\* file lists a caller passes: existing entries of the game root, without repetition
FileLists(g) ==
    {fl \in UNION {[1..n -> Entries(g)] : n \in 1..Cardinality(Paths)} :
        \A i, j \in DOMAIN fl : i # j => fl[i] # fl[j]}

BackupFiles ==
    /\ pc = "idle"
    /\ \E fl \in FileLists(game) :
         LET r == BackupLoop(game, [b |-> backup, bexists |-> bexists, raised |-> "none"], fl)
         IN  /\ backup' = r.b
             /\ bexists' = r.bexists
             /\ bkRaised' = r.raised
             /\ before' = backup
             /\ repeat' = (fl = prevF /\ changed)
             /\ changed' = FALSE
             /\ prevF' = fl
    /\ UNCHANGED <<game, mods, log, pc, ret, todo, raised, entry>>
    /\ UNCHANGED <<cliVars, txtVars, loadVars>>

\* the user (or the game's updater) changes one entry of the game root
ModifyGame ==
    /\ pc = "idle"
    /\ \E p \in Paths, k \in Kinds :
         /\ k # game[p]
         /\ k # "none" => IsDir(game, Parent(p))
         /\ game' = [Remove(game, p) EXCEPT ![p] = k]
    /\ changed' = TRUE
    /\ UNCHANGED <<bexists, backup, mods, log, pc, ret, todo, raised, entry>>
    /\ UNCHANGED <<prevF, before, repeat, bkRaised>>
    /\ UNCHANGED <<cliVars, txtVars, loadVars>>

(***************************************************************************)
(* restore_files(game_path, backup_path)                                   *)
(***************************************************************************)
\* one iteration of the loop over backup_path.glob("**/*"); the glob yields a
\* folder before the entries inside it, siblings in directory order
RestoreItem ==
    /\ pc = "restore"
    /\ \E p \in todo :
         /\ Parent(p) \notin todo
         /\ IF IsDir(game, p)
            THEN \* original_path.mkdir(parents=True, exist_ok=True)
                 /\ todo' = todo \ {p}
                 /\ UNCHANGED <<game, log, pc, raised>>
            ELSE IF ~MkdirOk(game, Parent(p))
            THEN \* original_path.parent.mkdir(...) raises outside the try block
                 /\ raised' = "FileExistsError"
                 /\ pc' = "exit"
                 /\ UNCHANGED <<game, log, todo>>
            ELSE LET g1 == MkdirP(game, Parent(p)) IN
                 /\ todo' = todo \ {p}
                 /\ UNCHANGED <<pc, raised>>
                 /\ IF backup[p] = "dir"
                    THEN \* shutil.copyfile of a folder: IsADirectoryError, an OSError
                         /\ game' = g1
                         /\ log' = log \cup {Logged("error", "Unable to restore file", p)}
                    ELSE \E copied \in BOOLEAN :
                         IF copied
                         THEN /\ game' = [g1 EXCEPT ![p] = backup[p]]
                              /\ log' = log \cup {Logged("info", "Restoring file", p)}
                         ELSE /\ game' = g1
                              /\ log' = log \cup {Logged("error", "Unable to restore file", p)}
    /\ UNCHANGED <<bexists, backup, mods, ret, entry>>
    /\ UNCHANGED <<cliVars, bkVars, txtVars, loadVars>>

\* the glob is exhausted: restore_files returns to its caller
RestoreReturn ==
    /\ pc = "restore"
    /\ todo = {}
    /\ pc' = ret
    /\ UNCHANGED <<game, bexists, backup, mods, log, ret, todo, raised, entry>>
    /\ UNCHANGED <<cliVars, bkVars, txtVars, loadVars>>

(***************************************************************************)
(* uninstall_mods(game_path, backup_path, modfolder_path)                  *)
(***************************************************************************)
\* entered from cli (pc = "uninstall") or called directly (pc = "idle")
UninstallMods ==
    /\ pc \in {"idle", "uninstall"}
    /\ entry' = [bexists |-> bexists, mods |-> mods, game |-> game,
                 backup |-> backup, called |-> TRUE]
    /\ IF bexists
       THEN IF Entries(backup) # {}
            THEN /\ log' = log \cup {Logged("info", "Restoring game files from backup folder", Root)}
                 /\ pc' = "restore"
                 /\ todo' = Entries(backup)
                 /\ ret' = "rmtree"
            ELSE /\ log' = log \cup {Logged("warning", "Backup folder is empty", Root)}
                 /\ pc' = "rmtree"
                 /\ UNCHANGED <<todo, ret>>
       ELSE /\ log' = log \cup {Logged("warning", "Backup folder not found", Root)}
            /\ pc' = "rmmods"
            /\ UNCHANGED <<todo, ret>>
    /\ prevF' = <<>>
    /\ before' = NoFS
    /\ repeat' = FALSE
    /\ bkRaised' = "none"
    /\ changed' = FALSE
    /\ UNCHANGED <<game, bexists, backup, mods, raised>>
    /\ UNCHANGED <<cliVars, txtVars, loadVars>>

\* shutil.rmtree(backup_path)
RmTree ==
    /\ pc = "rmtree"
    /\ log' = log \cup {Logged("info", "Deleted backup folder", Root)}
    /\ bexists' = FALSE
    /\ backup' = NoFS
    /\ pc' = "rmmods"
    /\ UNCHANGED <<game, mods, ret, todo, raised, entry>>
    /\ UNCHANGED <<cliVars, bkVars, txtVars, loadVars>>

\* RmMods without the removal of the mod folder
RmMods_KeepsFolder ==
    /\ pc = "rmmods"
    /\ raised' = "Exit"
    /\ pc' = "exit"
    /\ UNCHANGED <<game, bexists, backup, mods, log, ret, todo, entry>>
    /\ UNCHANGED <<cliVars, bkVars, txtVars, loadVars>>

\* the mod folder is removed when present; typer.Exit ends the call
RmMods ==
    /\ pc = "rmmods"
    /\ IF mods
       THEN /\ mods' = FALSE
            /\ log' = log \cup {Logged("info", "Deleted mod folder", Root)}
       ELSE UNCHANGED <<mods, log>>
    /\ raised' = "Exit"
    /\ pc' = "exit"
    /\ UNCHANGED <<game, bexists, backup, ret, todo, entry>>
    /\ UNCHANGED <<cliVars, bkVars, txtVars, loadVars>>

(***************************************************************************)
(* GameEnum and cli                                                        *)
(***************************************************************************)
GameEnum == {"Hades", "Pyre", "Transistor", "Bastion"}

\* GameEnum.script_path
script_path(g) ==
    CASE g = "Hades"      -> <<"Scritps/RoomManager.lua">>
      [] g = "Pyre"       -> <<"Scripts/Campaign.lua", "Scripts/MPScripts.lua">>
      [] g = "Transistor" -> <<"Scripts/AllCampaignScripts.txt">>
      [] g = "Bastion"    -> <<"">>

\* GameEnum.guess_game: the parent folder's name, Hades when it is no game's name
guess_game(name) == IF name \in GameEnum THEN name ELSE "Hades"

\* the game cli works with: the --game option, else the detected game
SelectedGame == IF gameOpt = "None" THEN guess_game(parentName) ELSE gameOpt

\* cli up to the dispatch on --clean
CliStart ==
    /\ pc = "start"
    /\ \/ /\ SelectedGame # guess_game(parentName)
          /\ \E confirmed \in BOOLEAN :
               IF confirmed
               THEN /\ pc' = IF clean THEN "uninstall" ELSE "checkmods"
                    /\ UNCHANGED raised
               ELSE /\ raised' = "Abort"
                    /\ pc' = "exit"
       \/ /\ SelectedGame = guess_game(parentName)
          /\ pc' = IF clean THEN "uninstall" ELSE "checkmods"
          /\ UNCHANGED raised
    /\ UNCHANGED <<game, bexists, backup, mods, log, ret, todo, entry>>
    /\ UNCHANGED <<cliVars, bkVars, txtVars, loadVars>>

\* a missing mod folder is offered for creation, then cli exits
CheckMods ==
    /\ pc = "checkmods"
    /\ IF ~mods
       THEN /\ \E create \in BOOLEAN :
                 IF create
                 THEN /\ mods' = TRUE
                      /\ log' = log \cup {Logged("warning", "Mods folder does not exist", Root),
                                          Logged("info", "Created mods folder", Root)}
                 ELSE /\ log' = log \cup {Logged("warning", "Mods folder does not exist", Root)}
                      /\ UNCHANGED mods
            /\ raised' = "Exit"
            /\ pc' = "exit"
       ELSE /\ pc' = "mkbackup"
            /\ UNCHANGED <<mods, log, raised>>
    /\ UNCHANGED <<game, bexists, backup, ret, todo, entry>>
    /\ UNCHANGED <<cliVars, bkVars, txtVars, loadVars>>

\* the backup folder is created when missing
MkBackup ==
    /\ pc = "mkbackup"
    /\ bexists' = TRUE
    /\ log' = IF bexists THEN log
              ELSE log \cup {Logged("debug", "Created backup folder", Root)}
    /\ pc' = "readmod"
    /\ UNCHANGED <<game, backup, mods, ret, todo, raised, entry>>
    /\ UNCHANGED <<cliVars, bkVars, txtVars, loadVars>>

\* read_modfiles followed by a merge into a game file, no backup taken
read_modfiles_merging ==
    /\ pc = "readmod"
    /\ stdout' = Append(stdout, script_path(SelectedGame))
    /\ changelist' = <<>>
    /\ game' = [game EXCEPT !["f.txt"] = IF @ = "v2" THEN "v1" ELSE "v2"]
    /\ pc' = "exit"
    /\ UNCHANGED <<bexists, backup, mods, log, ret, todo, raised, entry>>
    /\ UNCHANGED <<clean, parentName, gameOpt>>
    /\ UNCHANGED <<bkVars, txtVars, loadVars>>

\* read_modfiles: echoes the script paths and returns the empty list; the
\* loop over the modfiles stands after the return statement and never runs.
\* backup_files and apply_mods are commented out in cli, which ends here.
read_modfiles ==
    /\ pc = "readmod"
    /\ stdout' = Append(stdout, script_path(SelectedGame))
    /\ changelist' = <<>>
    /\ pc' = "exit"
    /\ UNCHANGED <<game, bexists, backup, mods, log, ret, todo, raised, entry>>
    /\ UNCHANGED <<clean, parentName, gameOpt>>
    /\ UNCHANGED <<bkVars, txtVars, loadVars>>

(***************************************************************************)
(* Specifications of the filesystem operations                             *)
(***************************************************************************)
TxtOff  == text = <<>> /\ cleaned = <<>> /\ cpc = "off"
LoadOff == lines = <<>> /\ lineNo = 0 /\ out = <<>> /\ lraised = "none" /\ lresult = <<>>
BkOff   == /\ prevF = <<>> /\ before = NoFS /\ repeat = FALSE
           /\ bkRaised = "none" /\ changed = FALSE

\* one run of cli on a game folder in any state
Init ==
    /\ game \in Trees
    /\ bexists \in BOOLEAN
    /\ backup \in (IF bexists THEN Trees ELSE {NoFS})
    /\ mods \in BOOLEAN
    /\ log = {} /\ pc = "start" /\ ret = "none" /\ todo = {} /\ raised = "none"
    /\ entry = NoEntry
    /\ clean \in BOOLEAN
    /\ parentName \in {"Hades", "Pyre", "Content"}
    /\ gameOpt \in {"None", "Hades", "Pyre"}
    /\ stdout = <<>> /\ changelist = <<>>
    /\ BkOff /\ TxtOff /\ LoadOff

Next ==
    \/ CliStart
    \/ CheckMods
    \/ MkBackup
    \/ read_modfiles
    \/ UninstallMods
    \/ RestoreItem
    \/ RestoreReturn
    \/ RmTree
    \/ RmMods

Spec == Init /\ [][Next]_vars

\* the backup store used directly: backups of a changing game folder, then one uninstall
InitStore ==
    /\ game \in Trees
    /\ bexists = FALSE
    /\ backup = NoFS
    /\ mods \in BOOLEAN
    /\ log = {} /\ pc = "idle" /\ ret = "none" /\ todo = {} /\ raised = "none"
    /\ entry = NoEntry
    /\ clean = TRUE /\ parentName = "Hades" /\ gameOpt = "None"
    /\ stdout = <<>> /\ changelist = <<>>
    /\ BkOff /\ TxtOff /\ LoadOff

NextStore ==
    \/ BackupFiles
    \/ ModifyGame
    \/ UninstallMods
    \/ RestoreItem
    \/ RestoreReturn
    \/ RmTree
    \/ RmMods

SpecStore == InitStore /\ [][NextStore]_vars

ErrorLogged(p) == Logged("error", "Unable to restore file", p) \in log

\* C1: a repeated backup_files call on the same file list leaves every entry
\* that was already under the backup root with the content it had, and raises
\* no error for a folder that is already there.
C1_NeverOverwrites ==
    repeat => /\ bkRaised = "none"
              /\ \A p \in Paths : before[p] # "none" => backup[p] = before[p]

\* C2: after restore_files and the removal of the backup folder, every entry
\* that was in the backup is back under the game root with the backed-up
\* content, or an error naming it was logged.
C2_RoundTrip ==
    (pc = "exit" /\ raised = "Exit" /\ entry.called /\ entry.bexists) =>
        \A p \in Paths : entry.backup[p] # "none" =>
            (game[p] = entry.backup[p] \/ ErrorLogged(p))

\* C3: on the install path of cli no entry of the game root is written
\* unless the backup already holds an entry for it.
C3_BackupPrecedesWrite ==
    [][~clean => \A p \in Paths : game'[p] # game[p] => backup[p] # "none"]_vars

C3_Witness ==
    /\ pc = "exit" /\ ~clean /\ raised = "none" /\ stdout # <<>>
    /\ \E p \in Paths : game[p] \in Contents /\ backup[p] = "none"

\* C4: when a run of cli with --clean that reached uninstall_mods has ended,
\* the backup folder does not exist.
C4_BackupGoneAfterClean ==
    (pc = "exit" /\ clean /\ entry.called) => ~bexists

\* C5 (as stated): uninstall_mods without a backup folder restores nothing,
\* warns, deletes the mod folder and raises no exception to its caller.
C5_NoException ==
    (pc = "exit" /\ entry.called /\ ~entry.bexists) =>
        /\ game = entry.game
        /\ Logged("warning", "Backup folder not found", Root) \in log
        /\ ~mods
        /\ raised = "none"

\* C5 (amended): uninstall_mods without a backup folder restores nothing,
\* warns, deletes the mod folder and raises typer.Exit, no other exception.
C5_OnlyExit ==
    (pc = "exit" /\ entry.called /\ ~entry.bexists) =>
        /\ game = entry.game
        /\ \A p \in Paths : Logged("info", "Restoring file", p) \notin log
        /\ Logged("warning", "Backup folder not found", Root) \in log
        /\ ~mods
        /\ raised = "Exit"

C5_Witness ==
    pc = "exit" /\ entry.called /\ ~entry.bexists /\ entry.mods /\ ~mods

\* C6: restore_files never lets an exception out and visits every entry of
\* the backup, whatever fails on one of them.
C6_BestEffort ==
    (entry.called /\ pc # "restore") =>
        /\ raised \notin {"FileExistsError"}
        /\ todo = {}

(***************************************************************************)
(* REGEX_SUBSTITUTION and re.sub(REGEX_SUBSTITUTION, "", file_content)     *)
(* A text is a sequence of characters.                                     *)
(***************************************************************************)
MaxLen   == 6
Alphabet == {":", "-", " ", "\n", "a"}
Texts    == UNION {[1..n -> Alphabet] : n \in 0..MaxLen}

\* \s
IsSpace(c) == c \in {" ", "\n"}

\* the character at position i, "" beyond the ends of the text
At(s, i) == IF i \in 1..Len(s) THEN s[i] ELSE ""

\* where .*?$ stops: the first newline at or after r, else the end of the text
RECURSIVE LineEnd(_, _)
LineEnd(s, r) == IF r > Len(s) \/ s[r] = "\n" THEN r ELSE LineEnd(s, r + 1)

\* where (?:.|\s)*? stops: the first ":-" at or after r, 0 when there is none
RECURSIVE CloseAt(_, _)
CloseAt(s, r) == IF r + 1 > Len(s) THEN 0
                 ELSE IF s[r] = ":" /\ s[r + 1] = "-" THEN r
                 ELSE CloseAt(s, r + 1)

\* where \s+ stops
RECURSIVE SpaceEnd(_, _)
SpaceEnd(s, r) == IF r <= Len(s) /\ IsSpace(s[r]) THEN SpaceEnd(s, r + 1) ELSE r

\* (\s?::.*?$\s?) tried at position p: the position after the match, 0 if none
SingleLineComment(s, p) ==
    LET q == IF IsSpace(At(s, p)) /\ At(s, p + 1) = ":" /\ At(s, p + 2) = ":"
             THEN p + 1 ELSE p
        r == LineEnd(s, q + 2)
    IN  IF At(s, q) = ":" /\ At(s, q + 1) = ":"
        THEN (IF r <= Len(s) THEN r + 1 ELSE r)
        ELSE 0

\* (-:(?:.|\s)*?:-\s?) tried at position p
MultilineComment(s, p) ==
    LET r == CloseAt(s, p + 2)
    IN  IF At(s, p) = "-" /\ At(s, p + 1) = ":" /\ r # 0
        THEN (IF IsSpace(At(s, r + 2)) THEN r + 3 ELSE r + 2)
        ELSE 0

\* (^\s+) tried at position p, ^ under re.MULTILINE
LeadingSpace(s, p) ==
    IF (p = 1 \/ At(s, p - 1) = "\n") /\ IsSpace(At(s, p))
    THEN SpaceEnd(s, p)
    ELSE 0

\* the alternation, first alternative that matches
REGEX_SUBSTITUTION(s, p) ==
    IF SingleLineComment(s, p) # 0 THEN SingleLineComment(s, p)
    ELSE IF MultilineComment(s, p) # 0 THEN MultilineComment(s, p)
    ELSE LeadingSpace(s, p)

\* re.sub(REGEX_SUBSTITUTION, "", s) from position p on
RECURSIVE SubFrom(_, _)
SubFrom(s, p) ==
    IF p > Len(s) THEN <<>>
    ELSE IF REGEX_SUBSTITUTION(s, p) = 0 THEN <<s[p]>> \o SubFrom(s, p + 1)
    ELSE SubFrom(s, REGEX_SUBSTITUTION(s, p))

re_sub(s) == SubFrom(s, 1)

\* read_modfiles line 193 applied to one modfile text
Substitute ==
    /\ cpc = "read"
    /\ cleaned' = re_sub(text)
    /\ cpc' = "cleaned"
    /\ UNCHANGED text
    /\ UNCHANGED <<fsVars, cliVars, bkVars, loadVars>>

FsOff ==
    /\ game = NoFS /\ bexists = FALSE /\ backup = NoFS /\ mods = FALSE
    /\ log = {} /\ pc = "off" /\ ret = "none" /\ todo = {} /\ raised = "none"
    /\ entry = NoEntry
    /\ clean = FALSE /\ parentName = "Hades" /\ gameOpt = "None"
    /\ stdout = <<>> /\ changelist = <<>>

InitClean ==
    /\ text \in Texts
    /\ cleaned = <<>>
    /\ cpc = "read"
    /\ FsOff /\ BkOff /\ LoadOff

NextClean == Substitute

SpecClean == InitClean /\ [][NextClean]_vars

(***************************************************************************)
(* The command lines of a modfile text, read off the modfile syntax: the   *)
(* text before "::" on each line, without surrounding whitespace, blank    *)
(* lines left out.                                                         *)
(***************************************************************************)
RECURSIVE SplitFrom(_, _, _)
SplitFrom(s, p, cur) ==
    IF p > Len(s) THEN <<cur>>
    ELSE IF s[p] = "\n" THEN <<cur>> \o SplitFrom(s, p + 1, <<>>)
    ELSE SplitFrom(s, p + 1, Append(cur, s[p]))

SplitLines(s) == SplitFrom(s, 1, <<>>)

RECURSIVE CutFrom(_, _)
CutFrom(l, p) ==
    IF p > Len(l) THEN l
    ELSE IF At(l, p) = ":" /\ At(l, p + 1) = ":" THEN SubSeq(l, 1, p - 1)
    ELSE CutFrom(l, p + 1)

RECURSIVE LStrip(_)
LStrip(l) == IF l # <<>> /\ IsSpace(Head(l)) THEN LStrip(Tail(l)) ELSE l

RECURSIVE RStrip(_)
RStrip(l) == IF l # <<>> /\ IsSpace(l[Len(l)]) THEN RStrip(SubSeq(l, 1, Len(l) - 1)) ELSE l

IsCommand(l) == l # <<>>

CommandLines(t) ==
    LET L == SplitLines(t)
    IN  SelectSeq([i \in 1..Len(L) |-> RStrip(LStrip(CutFrom(L[i], 1)))], IsCommand)

OutLines(c) ==
    LET L == SplitLines(c)
    IN  SelectSeq([i \in 1..Len(L) |-> RStrip(LStrip(L[i]))], IsCommand)

NoMultiline(t) == \A i \in 1..Len(t) : ~(At(t, i) = "-" /\ At(t, i + 1) = ":")

\* C9: for a text without multiline comments, the lines of the cleaned text
\* are the command lines of the text, in order, each on its own line.
C9_KeepsCommandLines ==
    (cpc = "cleaned" /\ NoMultiline(text)) => OutLines(cleaned) = CommandLines(text)

\* C10: cleaning a cleaned text changes nothing.
C10_Idempotent ==
    cpc = "cleaned" => re_sub(cleaned) = cleaned

(***************************************************************************)
(* load_mods(modfile_commands)                                             *)
(* A line is the list of its tokens, line.split().                         *)
(***************************************************************************)
MaxLines == 4

LineSet == {
    <<"load", "1">>,
    <<"import", "foo.txt">>,
    <<"to", "Scripts/Bar.lua">>,
    <<"import", "baz.txt">>,
    <<"import">>,
    <<"Load", "order", "2.7">>,
    <<"load", "order", "first">>,
    <<"TOP", "a.txt", "b.txt">>,
    <<"xml", "x.xml">>,
    <<"patch", "x.txt">>
}

\* str.lower() on the command token
Lower(tok) ==
    CASE tok = "Load" -> "load"
      [] tok = "TOP"  -> "top"
      [] OTHER        -> tok

\* float(tok) succeeds
IsNumber(tok) == tok \in {"1", "2.7"}

\* int(float(tok))
IntFloat(tok) == IF tok = "1" THEN 1 ELSE 2

\* one iteration of the loop over modfile_commands.splitlines()
load_mods ==
    /\ lineNo \in 1..Len(lines)
    /\ lraised = "none"
    /\ LET t        == lines[lineNo]
           command  == t[1]
           sub      == t[2]
           priority == SubSeq(t, 3, Len(t))
       IN  IF Len(t) < 2
           THEN \* command, sub, *priority = line.split() cannot unpack
                /\ lraised' = "ValueError"
                /\ UNCHANGED <<lineNo, out>>
           ELSE IF Lower(command) = "load" /\ priority = <<>>
           THEN \* priority[0]
                /\ lraised' = "IndexError"
                /\ UNCHANGED <<lineNo, out>>
           ELSE IF Lower(command) = "load" /\ ~IsNumber(priority[1])
           THEN \* float(priority[0])
                /\ lraised' = "ValueError"
                /\ UNCHANGED <<lineNo, out>>
           ELSE /\ lineNo' = lineNo + 1
                /\ UNCHANGED lraised
                /\ out' =
                     CASE Lower(command) = "load" ->
                            Append(out, <<"debug", "priority", IntFloat(priority[1])>>)
                       [] Lower(command) = "import" ->
                            Append(out, <<"debug", "import", sub>>)
                       [] Lower(command) = "to" ->
                            Append(out, <<"debug", "destination", sub>>)
                       [] Lower(command) = "top" ->
                            Append(out, <<"debug", "top", priority>>)
                       [] Lower(command) \in {"xml", "map", "sjson", "include"} ->
                            out
                       [] OTHER ->
                            Append(out, <<"warning", "not supported", command>>)
    \* load_mods has no return statement: nothing is handed back
    /\ UNCHANGED <<lines, lresult>>
    /\ UNCHANGED <<fsVars, cliVars, bkVars, txtVars>>

LoadDone == lineNo >= 1 /\ (lraised # "none" \/ lineNo > Len(lines))

InitLoad ==
    /\ lines \in UNION {[1..n -> LineSet] : n \in 0..MaxLines}
    /\ lineNo = 1
    /\ out = <<>>
    /\ lraised = "none"
    /\ lresult = <<>>
    /\ FsOff /\ BkOff /\ TxtOff

NextLoad == load_mods

SpecLoad == InitLoad /\ [][NextLoad]_vars

ScenarioA == << <<"load", "1">>, <<"import", "foo.txt">>,
                <<"to", "Scripts/Bar.lua">>, <<"import", "baz.txt">> >>

MergeAction(src, prio) == [source |-> src, priority |-> prio]

\* C7: interpreting load 1, import foo.txt, to Scripts/Bar.lua, import baz.txt
\* yields two destination groups, each with one action at priority 1.
C7_ScenarioA ==
    (lines = ScenarioA /\ LoadDone) =>
        /\ lraised = "none"
        /\ lresult = << [destination |-> "default",
                         actions |-> <<MergeAction("foo.txt", 1)>>],
                        [destination |-> "Scripts/Bar.lua",
                         actions |-> <<MergeAction("baz.txt", 1)>>] >>

\* C8: a line with fewer than 2 tokens makes the interpretation of the mod
\* fail, at that line, with a MalformedDirectiveError.
C8_MalformedDirective ==
    \A i \in 1..Len(lines) :
        (lineNo = i /\ Len(lines[i]) < 2 /\ lraised # "none") =>
            lraised = "MalformedDirectiveError"

====
